---------------------------- MODULE Spec2Model ----------------------------
(***************************************************************************)
(* A model of linkalytics/factor/constructor/elasticfactor.py: the         *)
(* ElasticFactor query methods (available, reduce, reverse_lookup) and the *)
(* module-level helpers (combine_two_factors, combine_multi_factors,       *)
(* suggest, factor_constructor, flatten, prune, extend).                   *)
(*                                                                         *)
(* Every function is modelled by its own specification: Init draws the     *)
(* arguments of one call from bounded sets, the actions are the steps of   *)
(* the call.  The variables of the other functions stay at Idle values.    *)
(***************************************************************************)
EXTENDS Integers, Sequences, FiniteSets, TLC

VARIABLES
    pc,                 \* position of the running call
    ret,                \* what the call returned or raised
    data,               \* flatten, extend: the nested mapping argument
    level,              \* flatten: the level argument
    degree,             \* extend: the degree argument
    data_before,        \* extend: data as the caller passed it
    field_values,       \* extend: the values already known
    ad_ids_2,           \* extend: the entities discovered
    ext_addition,       \* extend: addition, the fresh mapping of one entity
    new_field_values,   \* extend: the list filtered in place
    idx,                \* extend: position of the list iterator of the filtering loop
    factors,            \* reduce, combine_multi_factors: the factors argument
    combined,           \* reduce: self.combine(ad_id, *factors)[ad_id]
    original,           \* combine_two_factors: the dict updated in place
    addition,           \* combine_two_factors: the dict merged into it
    ad_id,              \* suggest: the entity
    factor_label,       \* suggest: the factor
    lookup,             \* suggest: outcome of ElasticFactor(url).suggest(...)
    index,              \* the documents of the search index, in hit order
    size,               \* ElasticFactor.size, the cap on the hits of a query
    field,              \* reverse_lookup: the field argument
    field_value,        \* reverse_lookup: the field_value argument
    log,                \* reverse_lookup: the queries issued, with their responses
    seen                \* available: per entity, the fields the last call returned

vFlatten   == <<data, level>>
vExtend    == <<degree, data_before, field_values, ad_ids_2>>
vFilter    == <<ext_addition, new_field_values, idx>>
vReduce    == <<factors, combined>>
vCombine   == <<original, addition>>
vSuggest   == <<ad_id, factor_label, lookup>>
vIndex     == <<index, size>>
vReverse   == <<field, field_value, log>>
vAvailable == <<seen>>

vars == <<pc, ret, vFlatten, vExtend, vFilter, vReduce, vCombine, vSuggest,
          vIndex, vReverse, vAvailable>>

\* the value of a variable the running call does not use
Idle == <<>>

IdleFlatten   == data = Idle /\ level = Idle
IdleExtend    == /\ degree = Idle /\ data_before = Idle
                 /\ field_values = Idle /\ ad_ids_2 = Idle
IdleFilter    == ext_addition = Idle /\ new_field_values = Idle /\ idx = Idle
IdleReduce    == factors = Idle /\ combined = Idle
IdleCombine   == original = Idle /\ addition = Idle
IdleSuggest   == ad_id = Idle /\ factor_label = Idle /\ lookup = Idle
IdleIndex     == index = Idle /\ size = Idle
IdleReverse   == field = Idle /\ field_value = Idle /\ log = Idle
IdleAvailable == seen = Idle

\* how a call ends
Pending == [kind |-> "pending"]
Return(v) == [kind |-> "return", val |-> v]
Raise(e) == [kind |-> "raise", exc |-> e]

(***************************************************************************)
(* Python values.  A nested document is a dict or a leaf collection.  A    *)
(* dict keeps its keys in insertion order, so it is a sequence of items    *)
(* [k, v]; a leaf collection is only ever iterated into a set, so it is    *)
(* the set of its elements.                                                *)
(***************************************************************************)
Leaf(elems) == [isdict |-> FALSE, items |-> <<>>, elems |-> elems]
Dict(items) == [isdict |-> TRUE, items |-> items, elems |-> {}]

\* dict.keys()
DictKeys(items) == {items[i].k : i \in DOMAIN items}

\* `for i in v`: iterating a dict yields its keys, iterating a collection its elements
Iterate(v) == IF v.isdict THEN DictKeys(v.items) ELSE v.elems

(***************************************************************************)
(* Bounds of the inputs.                                                   *)
(***************************************************************************)
MaxEntries == 4     \* keys of a nested mapping, counted over all its levels
MaxNest == 2        \* nesting depth of the mappings inside the argument
MaxLevel == 3       \* largest level passed to flatten

KeyNames == <<"k1", "k2", "k3", "k4", "k5", "k6">>
LeafSets == {{"v1"}, {"v2"}, {"v1", "v2"}}

RECURSIVE ItemsOf(_, _)
RECURSIVE ValuesOf(_, _)
\* the dicts (as item sequences) with exactly n keys over all levels and
\* mappings nested at most d deep below them; the i-th key is KeyNames[i]
ItemsOf(n, d) ==
    IF n = 0 THEN {<<>>}
    ELSE UNION {
            { Append(rest, [k |-> KeyNames[Len(rest) + 1], v |-> val]) :
                  rest \in ItemsOf(n - 1 - j, d), val \in ValuesOf(j, d) }
            : j \in 0..(n - 1) }
ValuesOf(j, d) ==
    (IF j = 0 THEN {Leaf(e) : e \in LeafSets} ELSE {})
        \cup (IF d > 0 THEN {Dict(it) : it \in ItemsOf(j, d - 1)} ELSE {})

NestedMappings == UNION {ItemsOf(n, MaxNest) : n \in 0..MaxEntries}

(***************************************************************************)
(* flatten(data, level), lines 405-437.                                    *)
(***************************************************************************)
AtCutoffStrict(lvl, depth) == lvl < depth
\* `if level <= depth`
AtCutoff(lvl, depth) == lvl <= depth

RECURSIVE get_ad_ids(_, _, _)
RECURSIVE get_ad_ids_loop(_, _, _, _)
\* the values get_ad_ids adds to results for subdict at the given depth
get_ad_ids(lvl, subdict, depth) ==
    IF AtCutoff(lvl, depth)
    THEN UNION {Iterate(subdict[i].v) : i \in DOMAIN subdict}
    ELSE get_ad_ids_loop(lvl, subdict, 1, depth)
\* the else-branch loop from item i on; depth is the loop's local variable,
\* which the loop body increments for every dict value it meets
get_ad_ids_loop(lvl, subdict, i, depth) ==
    IF i > Len(subdict) THEN {}
    ELSE IF subdict[i].v.isdict
         THEN get_ad_ids(lvl, subdict[i].v.items, depth + 1)
                  \cup get_ad_ids_loop(lvl, subdict, i + 1, depth + 1)
         ELSE subdict[i].v.elems
                  \cup get_ad_ids_loop(lvl, subdict, i + 1, depth)

flatten(d, lvl) == get_ad_ids(lvl, d, 0)

InitFlatten ==
    /\ pc = "flatten"
    /\ ret = Pending
    /\ data \in NestedMappings
    /\ level \in 0..MaxLevel
    /\ IdleExtend /\ IdleFilter /\ IdleReduce /\ IdleCombine
    /\ IdleSuggest /\ IdleIndex /\ IdleReverse /\ IdleAvailable

CallFlatten ==
    /\ pc = "flatten"
    /\ ret' = Return(flatten(data, level))
    /\ pc' = "flatten_done"
    /\ UNCHANGED <<vFlatten, vExtend, vFilter, vReduce, vCombine, vSuggest,
                   vIndex, vReverse, vAvailable>>

NextFlatten == CallFlatten

SpecFlatten == InitFlatten /\ [][NextFlatten]_vars

\* the deepest nesting of a mapping inside items, the argument itself being depth 0
RECURSIVE NestDepth(_)
NestDepth(items) ==
    LET inner == {NestDepth(items[i].v.items) : i \in {j \in DOMAIN items : items[j].v.isdict}}
    IN IF inner = {} THEN 0
       ELSE 1 + (CHOOSE m \in inner : \A n \in inner : n <= m)

\* the elements of the leaf collections found at any depth of items
RECURSIVE AllLeaves(_)
AllLeaves(items) ==
    UNION {IF items[i].v.isdict THEN AllLeaves(items[i].v.items) ELSE items[i].v.elems
               : i \in DOMAIN items}

\* the elements of the leaf collections stored directly under the top-level keys
TopLeaves(items) ==
    UNION {items[i].v.elems : i \in {j \in DOMAIN items : ~items[j].v.isdict}}

\* C3: with level at least the deepest nesting of data, flatten(data, level)
\* returns exactly the elements of the leaf collections at any depth of data,
\* whatever the number of sibling mappings that precede a mapping.
C3_FlattenAllLeaves ==
    (pc = "flatten_done" /\ level >= NestDepth(data)) => ret.val = AllLeaves(data)

\* C4 as claimed: flatten(data, 0) returns exactly the elements of the top-level
\* leaf collections; a top-level mapping contributes nothing.
C4_TopLeavesOnly ==
    (pc = "flatten_done" /\ level = 0) => ret.val = TopLeaves(data)

\* C4 as amended: flatten(data, 0) returns the elements of the top-level leaf
\* collections together with the keys of the top-level values that are
\* mappings, and nothing from below those keys.
C4_TopIterated ==
    (pc = "flatten_done" /\ level = 0) =>
        ret.val = TopLeaves(data)
                    \cup UNION {DictKeys(data[i].v.items)
                                    : i \in {j \in DOMAIN data : data[j].v.isdict}}

\* a level-0 call on a mapping holding a leaf collection and a mapping that
\* itself holds a leaf collection whose elements are not returned
C4_Witness ==
    /\ pc = "flatten_done" /\ level = 0
    /\ \E i \in DOMAIN data : ~data[i].v.isdict
    /\ \E i \in DOMAIN data :
          /\ data[i].v.isdict
          /\ \E j \in DOMAIN data[i].v.items :
                /\ ~data[i].v.items[j].v.isdict
                /\ ~(data[i].v.items[j].v.elems \subseteq ret.val)
                /\ data[i].v.items[j].k \in ret.val

(***************************************************************************)
(* Helpers on dicts and lists.                                             *)
(***************************************************************************)
\* d[key]
GetItem(items, key) == items[CHOOSE i \in DOMAIN items : items[i].k = key].v

SetItemFresh(items, key, val) == <<[k |-> key, v |-> val]>>
\* d[key] = val: an existing key keeps its place, a new key goes last
SetItem(items, key, val) ==
    IF key \in DictKeys(items)
    THEN [i \in DOMAIN items |-> IF items[i].k = key THEN [k |-> key, v |-> val]
                                                  ELSE items[i]]
    ELSE Append(items, [k |-> key, v |-> val])

\* list(s) for a set s: its elements once each, in any order
ListsOf(S) ==
    {l \in [1..Cardinality(S) -> S] : \A i, j \in 1..Cardinality(S) : l[i] = l[j] => i = j}

\* list.remove(x): drops the first occurrence of x
ListRemove(l, x) ==
    LET i == CHOOSE j \in DOMAIN l : l[j] = x /\ \A m \in 1..(j - 1) : l[m] # x
    IN SubSeq(l, 1, i - 1) \o SubSeq(l, i + 1, Len(l))

ListElems(l) == {l[i] : i \in DOMAIN l}

(***************************************************************************)
(* prune(data, keepers), lines 440-466, and factor_constructor, lines      *)
(* 389-402.                                                                *)
(***************************************************************************)
\* the body of prune is commented out: it returns {} and touches no argument
prune(d, keepers) == <<>>

\* the parameter is spelt factor_labe3 and the body reads factor_labels, a name
\* bound nowhere in the module: evaluating the comprehension raises NameError
factor_constructor(entity, factor_labe3, url) == Raise("NameError")

FieldLevel == 1      \* flatten(v, 1)
ExtendLevel == 10    \* flatten(data, 10)
Degrees == {"k1", "k2", "ext2"}
FactorValues == <<"phone", "email">>
Url == "url"

(***************************************************************************)
(* extend(data, url, factor_values, degree), lines 469-495.                *)
(***************************************************************************)
InitExtend ==
    /\ pc = "extend"
    /\ ret = Pending
    /\ data \in NestedMappings
    /\ level = Idle
    /\ degree \in Degrees
    /\ data_before = data
    /\ field_values = {}
    /\ ad_ids_2 = {}
    /\ IdleFilter /\ IdleReduce /\ IdleCombine
    /\ IdleSuggest /\ IdleIndex /\ IdleReverse /\ IdleAvailable

\* lines 480-483: a top-level value that is no dict has no items()
ExtendFieldValues ==
    /\ pc = "extend"
    /\ IF \E i \in DOMAIN data : ~data[i].v.isdict
       THEN /\ ret' = Raise("AttributeError")
            /\ pc' = "extend_raised"
            /\ UNCHANGED field_values
       ELSE /\ field_values' =
                  UNION {flatten(data[i].v.items, FieldLevel) : i \in DOMAIN data}
            /\ pc' = "extend_degree"
            /\ UNCHANGED ret
    /\ UNCHANGED <<vFlatten, degree, data_before, ad_ids_2, vFilter, vReduce,
                   vCombine, vSuggest, vIndex, vReverse, vAvailable>>

\* line 484
ExtendSetDegree ==
    /\ pc = "extend_degree"
    /\ data' = SetItem(data, degree, Dict(<<>>))
    /\ pc' = "extend_ids"
    /\ UNCHANGED <<ret, level, vExtend, vFilter, vReduce, vCombine, vSuggest,
                   vIndex, vReverse, vAvailable>>

\* line 485
ExtendFlattenIds ==
    /\ pc = "extend_ids"
    /\ ad_ids_2' = flatten(data, ExtendLevel)
    /\ pc' = "extend_loop"
    /\ UNCHANGED <<ret, vFlatten, degree, data_before, field_values, vFilter,
                   vReduce, vCombine, vSuggest, vIndex, vReverse, vAvailable>>

\* lines 486-487: the first iteration calls factor_constructor, which raises
ExtendConstruct ==
    /\ pc = "extend_loop"
    /\ \E entity \in ad_ids_2 :
          /\ factor_constructor(entity, FactorValues, Url).kind = "raise"
          /\ ret' = factor_constructor(entity, FactorValues, Url)
    /\ pc' = "extend_raised"
    /\ UNCHANGED <<vFlatten, vExtend, vFilter, vReduce, vCombine, vSuggest,
                   vIndex, vReverse, vAvailable>>

\* line 495, reached when no entity is left to visit
ExtendReturn ==
    /\ pc = "extend_loop"
    /\ ad_ids_2 = {}
    /\ ret' = Return(data)
    /\ pc' = "extend_done"
    /\ UNCHANGED <<vFlatten, vExtend, vFilter, vReduce, vCombine, vSuggest,
                   vIndex, vReverse, vAvailable>>

NextExtend ==
    \/ ExtendFieldValues
    \/ ExtendSetDegree
    \/ ExtendFlattenIds
    \/ ExtendConstruct
    \/ ExtendReturn

SpecExtend == InitExtend /\ [][NextExtend]_vars

\* C10: when extend returns, it returns data, data[degree] is the empty mapping
\* and every other key of data maps to what it did before the call.
C10_ExtendFrame ==
    pc = "extend_done" =>
        /\ ret = Return(data)
        /\ degree \in DictKeys(data)
        /\ GetItem(data, degree) = Dict(<<>>)
        /\ DictKeys(data) \ {degree} = DictKeys(data_before) \ {degree}
        /\ \A key \in DictKeys(data) \ {degree} :
              GetItem(data, key) = GetItem(data_before, key)

\* extend returned on a mapping that holds a key other than degree, and
\* changed the value of degree
C10_Witness ==
    /\ pc = "extend_done"
    /\ DictKeys(data_before) \ {degree} # {}
    /\ \E i \in DOMAIN data_before : data_before[i].v.items # <<>>
    /\ data # data_before

(***************************************************************************)
(* The body of extend's loop for one entity, lines 489-494, from the point *)
(* where addition holds the entity's fresh mapping.                        *)
(***************************************************************************)
KnownValues == {"v1", "v2", "k1"}

InitFilter ==
    /\ pc = "ext_list"
    /\ ret = Pending
    /\ degree = "ext2"
    /\ data = <<[k |-> "ext2", v |-> Dict(<<>>)]>>
    /\ level = Idle
    /\ data_before = data
    /\ field_values \in SUBSET KnownValues
    /\ ad_ids_2 = {}
    /\ ext_addition \in NestedMappings
    /\ new_field_values = <<>>
    /\ idx = 0
    /\ IdleReduce /\ IdleCombine
    /\ IdleSuggest /\ IdleIndex /\ IdleReverse /\ IdleAvailable

\* line 489: list() of a set yields its elements in an order the caller does
\* not control
ExtendListNew ==
    /\ pc = "ext_list"
    /\ new_field_values' \in ListsOf(flatten(ext_addition, FieldLevel))
    /\ idx' = 0
    /\ pc' = "ext_for"
    /\ UNCHANGED <<ret, vFlatten, vExtend, ext_addition, vReduce, vCombine,
                   vSuggest, vIndex, vReverse, vAvailable>>

\* lines 490-492: one iteration.  The list iterator reads position idx and
\* moves on; the body removes the value from the very list it iterates
ExtendForStep ==
    /\ pc = "ext_for"
    /\ idx < Len(new_field_values)
    /\ LET value == new_field_values[idx + 1]
       IN new_field_values' = IF value \in field_values
                              THEN ListRemove(new_field_values, value)
                              ELSE new_field_values
    /\ idx' = idx + 1
    /\ UNCHANGED <<pc, ret, vFlatten, vExtend, ext_addition, vReduce, vCombine,
                   vSuggest, vIndex, vReverse, vAvailable>>

\* the iterator is exhausted once its position reaches the current length
ExtendForExit ==
    /\ pc = "ext_for"
    /\ idx >= Len(new_field_values)
    /\ pc' = "ext_prune"
    /\ UNCHANGED <<ret, vFlatten, vExtend, vFilter, vReduce, vCombine,
                   vSuggest, vIndex, vReverse, vAvailable>>

\* line 494
ExtendPrune ==
    /\ pc = "ext_prune"
    /\ data' = SetItem(data, degree, Dict(prune(ext_addition, new_field_values)))
    /\ pc' = "ext_next"
    /\ UNCHANGED <<ret, level, vExtend, vFilter, vReduce, vCombine,
                   vSuggest, vIndex, vReverse, vAvailable>>

NextFilter ==
    \/ ExtendListNew
    \/ ExtendForStep
    \/ ExtendForExit
    \/ ExtendPrune

SpecFilter == InitFilter /\ [][NextFilter]_vars

MaxFactors == 2     \* length of the factors argument

FactorNames == {"phone", "email"}
SuggestionKeys == {{}, {"x"}, {"x", "y"}}
AdIds == {"a1", "a2"}

CombinedStores ==
    LET inner == UNION {[K -> SUBSET AdIds] : K \in SuggestionKeys}
    IN UNION {[F -> inner] : F \in SUBSET FactorNames}

FactorLists == UNION {[1..n -> FactorNames] : n \in 0..MaxFactors}

\* union = lambda x,y: x|y
union(x, y) == x \cup y

intersect_as_union(x, y) == x \cup y
\* intersect = lambda x,y: x&y
intersect(x, y) == x \cap y

\* reduce(union, map(set, d.values()), set()): a left fold from the empty set
RECURSIVE reduce_union(_, _, _)
reduce_union(acc, d, todo) ==
    IF todo = {} THEN acc
    ELSE LET key == CHOOSE x \in todo : TRUE
         IN reduce_union(union(acc, d[key]), d, todo \ {key})

\* reduce(intersect, sets): a left fold that starts from the first element
RECURSIVE reduce_intersect(_, _, _)
reduce_intersect(acc, sets, i) ==
    IF i > Len(sets) THEN acc
    ELSE reduce_intersect(intersect(acc, sets[i]), sets, i + 1)

\* the value of reduce, or the exception it raises
reduce_factors(comb, fs) ==
    IF \E i \in DOMAIN fs : fs[i] \notin DOMAIN comb
    THEN Raise("KeyError")
    ELSE IF fs = <<>>
    THEN Raise("TypeError")
    ELSE LET sets == [i \in DOMAIN fs |->
                         reduce_union({}, comb[fs[i]], DOMAIN comb[fs[i]])]
         IN Return(reduce_intersect(sets[1], sets, 2))

InitReduce ==
    /\ pc = "reduce"
    /\ ret = Pending
    /\ factors \in FactorLists
    /\ combined \in CombinedStores
    /\ IdleFlatten /\ IdleExtend /\ IdleFilter /\ IdleCombine
    /\ IdleSuggest /\ IdleIndex /\ IdleReverse /\ IdleAvailable

CallReduce ==
    /\ pc = "reduce"
    /\ ret' = reduce_factors(combined, factors)
    /\ pc' = "reduce_done"
    /\ UNCHANGED <<vFlatten, vExtend, vFilter, vReduce, vCombine, vSuggest,
                   vIndex, vReverse, vAvailable>>

NextReduce == CallReduce

SpecReduce == InitReduce /\ [][NextReduce]_vars

\* C1: for a non-empty list of factors stored under combined, reduce returns
\* exactly the values that belong, for every factor of the list, to one of
\* the value collections stored under that factor.
C1_ReduceIntersectsUnions ==
    (/\ pc = "reduce_done"
     /\ factors # <<>>
     /\ \A i \in DOMAIN factors : factors[i] \in DOMAIN combined) =>
        /\ ret.kind = "return"
        /\ ret.val = {v \in AdIds :
                         \A i \in DOMAIN factors :
                            \E key \in DOMAIN combined[factors[i]] :
                               v \in combined[factors[i]][key]}

\* two different factors whose unions differ and overlap
C1_Witness ==
    /\ pc = "reduce_done"
    /\ ret.kind = "return"
    /\ Len(factors) = 2 /\ factors[1] # factors[2]
    /\ ret.val # {}
    /\ \E v \in AdIds :
          /\ v \notin ret.val
          /\ \E key \in DOMAIN combined[factors[1]] : v \in combined[factors[1]][key]

(***************************************************************************)
(* combine_two_factors(original, addition), lines 334-349.  Key order      *)
(* plays no part here, so a two-level dict is a function from its keys.    *)
(***************************************************************************)
FirstKeys == {"x", "y"}
SecondKeys == {"p", "q"}
Stored == {1, 2}

SecondLevel == UNION {[K -> Stored] : K \in SUBSET SecondKeys}
TwoLevel == UNION {[K -> SecondLevel] : K \in SUBSET FirstKeys}

\* d[key] = val on a function
Store(d, key, val) == [x \in DOMAIN d \cup {key} |-> IF x = key THEN val ELSE d[x]]

store_whole(orig, add, k1, k2) == Store(orig, k1, Store(<<>>, k2, add[k1][k2]))
\* original[k1][k2] = addition[k1][k2]
store_second(orig, add, k1, k2) == Store(orig, k1, Store(orig[k1], k2, add[k1][k2]))

\* for k2 in addition[k1]
RECURSIVE combine_inner(_, _, _, _)
combine_inner(orig, add, k1, todo) ==
    IF todo = {} THEN orig
    ELSE LET k2 == CHOOSE x \in todo : TRUE
         IN combine_inner(store_second(orig, add, k1, k2), add, k1, todo \ {k2})

\* for k1 in addition
RECURSIVE combine_outer(_, _, _)
combine_outer(orig, add, todo) ==
    IF todo = {} THEN orig
    ELSE LET k1 == CHOOSE x \in todo : TRUE
             started == IF k1 \notin DOMAIN orig THEN Store(orig, k1, <<>>) ELSE orig
         IN combine_outer(combine_inner(started, add, k1, DOMAIN add[k1]),
                          add, todo \ {k1})

combine_two_factors(orig, add) == combine_outer(orig, add, DOMAIN add)

InitCombine ==
    /\ pc = "combine"
    /\ ret = Pending
    /\ original \in TwoLevel
    /\ addition \in TwoLevel
    /\ IdleFlatten /\ IdleExtend /\ IdleFilter /\ IdleReduce
    /\ IdleSuggest /\ IdleIndex /\ IdleReverse /\ IdleAvailable

\* original is updated in place and returned
CallCombine ==
    /\ pc = "combine"
    /\ original' = combine_two_factors(original, addition)
    /\ ret' = Return(original')
    /\ pc' = "combine_done"
    /\ UNCHANGED <<vFlatten, vExtend, vFilter, vReduce, addition, vSuggest,
                   vIndex, vReverse, vAvailable>>

NextCombine == CallCombine

SpecCombine == InitCombine /\ [][NextCombine]_vars

\* C2: the mapping combine_two_factors returns has the first-level keys of
\* both arguments; under each of them the second-level keys of both; and at
\* each pair the value of addition where addition has the pair, the value of
\* original otherwise.
C2_TwoLevelUnion ==
    [][pc' = "combine_done" =>
          LET r == ret'.val
              second(d, k1) == IF k1 \in DOMAIN d THEN DOMAIN d[k1] ELSE {}
          IN /\ DOMAIN r = DOMAIN original \cup DOMAIN addition
             /\ \A k1 \in DOMAIN r :
                   /\ DOMAIN r[k1] = second(original, k1) \cup second(addition, k1)
                   /\ \A k2 \in DOMAIN r[k1] :
                         r[k1][k2] = IF k2 \in second(addition, k1)
                                     THEN addition[k1][k2]
                                     ELSE original[k1][k2]]_vars

\* a call where the arguments share a first-level key, each brings a
\* second-level key of its own under it, and they collide on another
C2_Witness ==
    /\ pc = "combine_done"
    /\ \E k1 \in DOMAIN addition :
          /\ DOMAIN ret.val[k1] = SecondKeys
          /\ DOMAIN addition[k1] # SecondKeys
          /\ DOMAIN addition[k1] # {}
    /\ \E k1 \in DOMAIN ret.val : k1 \notin DOMAIN addition

(***************************************************************************)
(* combine_multi_factors(factors), lines 352-364.  An entry of the list is *)
(* None or a two-level dict.                                               *)
(***************************************************************************)
MaxList == 2        \* length of the list of suggestions

None == [isNone |-> TRUE, d |-> <<>>]
Some(d) == [isNone |-> FALSE, d |-> d]

Entries == {None} \cup {Some(d) : d \in TwoLevel}
EntryLists == UNION {[1..n -> Entries] : n \in 0..MaxList}

\* `if i`: None and the empty dict are false
Truthy(e) == ~e.isNone /\ e.d # <<>>

\* the loop over factors[1:], from position i on; combine_two_factors on None
\* fails at `k1 not in original`
RECURSIVE combine_multi_loop(_, _, _)
combine_multi_loop(orig, fs, i) ==
    IF i > Len(fs) THEN Return(orig)
    ELSE IF ~Truthy(fs[i]) THEN combine_multi_loop(orig, fs, i + 1)
    ELSE IF orig.isNone THEN Raise("TypeError")
    ELSE combine_multi_loop(Some(combine_two_factors(orig.d, fs[i].d)), fs, i + 1)

combine_multi_factors(fs) ==
    IF fs = <<>> THEN Raise("IndexError") ELSE combine_multi_loop(fs[1], fs, 2)

InitMulti ==
    /\ pc = "multi"
    /\ ret = Pending
    /\ factors \in EntryLists
    /\ combined = Idle
    /\ IdleFlatten /\ IdleExtend /\ IdleFilter /\ IdleCombine
    /\ IdleSuggest /\ IdleIndex /\ IdleReverse /\ IdleAvailable

CallMulti ==
    /\ pc = "multi"
    /\ ret' = combine_multi_factors(factors)
    /\ pc' = "multi_done"
    /\ UNCHANGED <<vFlatten, vExtend, vFilter, vReduce, vCombine, vSuggest,
                   vIndex, vReverse, vAvailable>>

NextMulti == CallMulti

SpecMulti == InitMulti /\ [][NextMulti]_vars

\* the two-level union of the dicts of a list, later entries winning
RECURSIVE UnionOfEntries(_, _)
UnionOfEntries(fs, n) ==
    IF n = 0 THEN <<>>
    ELSE LET before == UnionOfEntries(fs, n - 1)
         IN IF fs[n].isNone THEN before
            ELSE [k1 \in DOMAIN before \cup DOMAIN fs[n].d |->
                    [k2 \in (IF k1 \in DOMAIN before THEN DOMAIN before[k1] ELSE {})
                              \cup (IF k1 \in DOMAIN fs[n].d THEN DOMAIN fs[n].d[k1] ELSE {})
                        |-> IF k1 \in DOMAIN fs[n].d /\ k2 \in DOMAIN fs[n].d[k1]
                            THEN fs[n].d[k1][k2] ELSE before[k1][k2]]]

\* C9: on a non-empty list combine_multi_factors never raises, wherever the
\* None entries stand, and when a dict is among the entries it returns the
\* two-level union of the dicts.
C9_SkipsNoneAnywhere ==
    (pc = "multi_done" /\ factors # <<>>) =>
        /\ ret.kind = "return"
        /\ (\E i \in DOMAIN factors : Truthy(factors[i])) =>
              ret.val = Some(UnionOfEntries(factors, Len(factors)))

(***************************************************************************)
(* suggest(ad_id, factor_label, url), lines 367-386.  The lookup           *)
(* ElasticFactor(url).suggest(ad_id, factor_label) is the caller's         *)
(* environment: it raises, or returns None or a mapping                    *)
(* entity -> factor -> suggestions.                                        *)
(***************************************************************************)
\* what may be stored under a factor: None, a number, a sized collection
Suggestions ==
    {[tag |-> "None", n |-> 0], [tag |-> "int", n |-> 0],
     [tag |-> "sized", n |-> 0], [tag |-> "sized", n |-> 1]}

PerFactor == {None} \cup {Some(d) : d \in UNION {[F -> Suggestions] : F \in SUBSET FactorNames}}
PerEntity == {None} \cup {Some(d) : d \in UNION {[A -> PerFactor] : A \in SUBSET AdIds}}

Exceptions == {"TypeError", "KeyError", "ConnectionError"}
LookupOutcomes == {Raise(e) : e \in Exceptions} \cup {Return(s) : s \in PerEntity}

\* len(suggestions[ad_id][factor_label]) == 0, or the exception raised on the way
lookup_is_empty(s, entity, label) ==
    IF s.isNone THEN Raise("TypeError")
    ELSE IF entity \notin DOMAIN s.d THEN Raise("KeyError")
    ELSE IF s.d[entity].isNone THEN Raise("TypeError")
    ELSE IF label \notin DOMAIN s.d[entity].d THEN Raise("KeyError")
    ELSE IF s.d[entity].d[label].tag # "sized" THEN Raise("TypeError")
    ELSE Return(s.d[entity].d[label].n = 0)

catches_any(exc) == TRUE
\* `except TypeError`
catches(exc) == exc = "TypeError"

\* the try block and its handler
suggest(outcome, entity, label) ==
    LET tried == IF outcome.kind = "raise" THEN outcome
                 ELSE LET empty == lookup_is_empty(outcome.val, entity, label)
                      IN IF empty.kind = "raise" THEN empty
                         ELSE IF empty.val THEN Return(None)
                         ELSE Return(outcome.val)
    IN IF tried.kind = "raise" /\ catches(tried.exc) THEN Return(None) ELSE tried

InitSuggest ==
    /\ pc = "suggest"
    /\ ret = Pending
    /\ ad_id \in AdIds
    /\ factor_label \in FactorNames
    /\ lookup = Pending
    /\ IdleFlatten /\ IdleExtend /\ IdleFilter /\ IdleReduce /\ IdleCombine
    /\ IdleIndex /\ IdleReverse /\ IdleAvailable

\* lines 377-378
SuggestLookup ==
    /\ pc = "suggest"
    /\ lookup' \in LookupOutcomes
    /\ pc' = "suggest_check"
    /\ UNCHANGED <<ret, vFlatten, vExtend, vFilter, vReduce, vCombine, ad_id,
                   factor_label, vIndex, vReverse, vAvailable>>

\* lines 380-386
SuggestFinish ==
    /\ pc = "suggest_check"
    /\ ret' = suggest(lookup, ad_id, factor_label)
    /\ pc' = "suggest_done"
    /\ UNCHANGED <<vFlatten, vExtend, vFilter, vReduce, vCombine, vSuggest,
                   vIndex, vReverse, vAvailable>>

NextSuggest == SuggestLookup \/ SuggestFinish

SpecSuggest == InitSuggest /\ [][NextSuggest]_vars

\* the lookup returned a mapping that stores a sized collection under the pair
HasSuggestions(outcome, entity, label) ==
    /\ outcome.kind = "return"
    /\ ~outcome.val.isNone
    /\ entity \in DOMAIN outcome.val.d
    /\ ~outcome.val.d[entity].isNone
    /\ label \in DOMAIN outcome.val.d[entity].d
    /\ outcome.val.d[entity].d[label].tag = "sized"

\* the lookup returned a mapping that lacks the entity or the factor
KeyMissing(outcome, entity, label) ==
    /\ outcome.kind = "return"
    /\ ~outcome.val.isNone
    /\ \/ entity \notin DOMAIN outcome.val.d
       \/ /\ ~outcome.val.d[entity].isNone
          /\ label \notin DOMAIN outcome.val.d[entity].d

\* C6: suggest returns None when the lookup raises TypeError or the
\* suggestions of the pair are empty, returns the mapping unchanged when they
\* are not, and lets every other error reach the caller.
C6_SuggestOutcomes ==
    pc = "suggest_done" =>
        /\ lookup = Raise("TypeError") => ret = Return(None)
        /\ (lookup.kind = "raise" /\ lookup.exc # "TypeError") => ret = lookup
        /\ KeyMissing(lookup, ad_id, factor_label) => ret = Raise("KeyError")
        /\ HasSuggestions(lookup, ad_id, factor_label) =>
              ret = IF lookup.val.d[ad_id].d[factor_label].n = 0
                    THEN Return(None) ELSE lookup

\* an error other than TypeError reached the caller
C6_Witness ==
    /\ pc = "suggest_done"
    /\ ret.kind = "raise"
    /\ KeyMissing(lookup, ad_id, factor_label)

(***************************************************************************)
(* The search index behind self.es.search.  A document has an _id and a    *)
(* _source mapping field -> value; a phrase query on a field matches the   *)
(* documents holding the value under it, on _all under any field, on _id   *)
(* as their identifier.  A response carries the total of matches and at    *)
(* most size hits.                                                         *)
(***************************************************************************)
MaxDocs == 2        \* documents in the index
MaxSize == 2        \* largest size a client is built with

Fields == {"phone", "email"}
Phrases == {"555", "777"}

Sources == UNION {[F -> Phrases] : F \in SUBSET Fields}
Documents == [_id : AdIds, _source : Sources]
Indexes == UNION {[1..n -> Documents] : n \in 0..MaxDocs}

Matches(doc, fld, phrase) ==
    IF fld = "_id" THEN doc._id = phrase
    ELSE IF fld = "_all" THEN \E f \in DOMAIN doc._source : doc._source[f] = phrase
    ELSE fld \in DOMAIN doc._source /\ doc._source[fld] = phrase

RECURSIVE Matching(_, _, _, _)
\* the documents of idx[i..] that match, in index order
Matching(idx_, i, fld, phrase) ==
    IF i > Len(idx_) THEN <<>>
    ELSE (IF Matches(idx_[i], fld, phrase) THEN <<idx_[i]>> ELSE <<>>)
            \o Matching(idx_, i + 1, fld, phrase)

\* self.es.search(body={"size": self.size, "query": {"match_phrase": {fld: phrase}}})
search(idx_, sz, fld, phrase) ==
    LET all == Matching(idx_, 1, fld, phrase)
        n == IF Len(all) < sz THEN Len(all) ELSE sz
    IN [total |-> Len(all), hits |-> SubSeq(all, 1, n)]

(***************************************************************************)
(* ElasticFactor.reverse_lookup(field, field_value), lines 177-208.        *)
(***************************************************************************)
InitReverse ==
    /\ pc = "rl_query"
    /\ ret = Pending
    /\ index \in Indexes
    /\ size \in 0..MaxSize
    /\ field \in Fields
    /\ field_value \in Phrases
    /\ log = <<>>
    /\ IdleFlatten /\ IdleExtend /\ IdleFilter /\ IdleReduce /\ IdleCombine
    /\ IdleSuggest /\ IdleAvailable

\* line 193
ReverseQuery ==
    /\ pc = "rl_query"
    /\ log' = Append(log, [fld |-> field,
                           results |-> search(index, size, field, field_value)])
    /\ pc' = "rl_check"
    /\ UNCHANGED <<ret, vFlatten, vExtend, vFilter, vReduce, vCombine, vSuggest,
                   vIndex, field, field_value, vAvailable>>

no_hits(results) == results.hits = <<>>
\* `if not results['hits']['total']`
no_total(results) == results.total = 0

\* lines 197-206
ReverseFallback ==
    /\ pc = "rl_check"
    /\ no_total(log[Len(log)].results)
    /\ log' = Append(log, [fld |-> "_all",
                           results |-> search(index, size, "_all", field_value)])
    /\ pc' = "rl_return"
    /\ UNCHANGED <<ret, vFlatten, vExtend, vFilter, vReduce, vCombine, vSuggest,
                   vIndex, field, field_value, vAvailable>>

ReverseNoFallback ==
    /\ pc = "rl_check"
    /\ ~no_total(log[Len(log)].results)
    /\ pc' = "rl_return"
    /\ UNCHANGED <<ret, vFlatten, vExtend, vFilter, vReduce, vCombine, vSuggest,
                   vIndex, vReverse, vAvailable>>

\* line 208: results is the response of the last query
ReverseReturn ==
    /\ pc = "rl_return"
    /\ LET hits == log[Len(log)].results.hits
       IN ret' = Return([i \in DOMAIN hits |-> hits[i]._id])
    /\ pc' = "rl_done"
    /\ UNCHANGED <<vFlatten, vExtend, vFilter, vReduce, vCombine, vSuggest,
                   vIndex, vReverse, vAvailable>>

NextReverse ==
    \/ ReverseQuery
    \/ ReverseFallback
    \/ ReverseNoFallback
    \/ ReverseReturn

SpecReverse == InitReverse /\ [][NextReverse]_vars

\* C5: a call issues the query on field first; it issues the _all query, once
\* and after it, exactly when the first response reports a total of zero; and
\* it returns the ids of the hits of the last query issued.
C5_FallbackOnZeroTotal ==
    /\ Len(log) <= 2
    /\ \A i \in DOMAIN log : (log[i].fld = "_all") <=> (i = 2)
    /\ pc \in {"rl_return", "rl_done"} =>
          /\ log[1].fld = field
          /\ (Len(log) = 2) <=> (log[1].results.total = 0)
    /\ pc = "rl_done" =>
          LET hits == search(index, size, log[Len(log)].fld, field_value).hits
          IN ret = Return([i \in DOMAIN hits |-> hits[i]._id])

\* the first query found nothing, the fallback found documents
C5_Witness ==
    /\ pc = "rl_done"
    /\ Len(log) = 2
    /\ ret.val # <<>>

(***************************************************************************)
(* ElasticFactor.available(ad_id), lines 61-83.  seen[e] is what the last  *)
(* call for entity e returned, the index it ran against and whether the    *)
(* call before it ran against the same index; documents are only ever      *)
(* added to the index, so its length stands for its contents.              *)
(***************************************************************************)
NotSeen == [called |-> FALSE, at |-> 0, fields |-> {}, again |-> FALSE]

accumulator_meet(x, y) == x \cap y
\* accumulator = lambda x,y: x|y
accumulator(x, y) == x \cup y

\* reduce(accumulator, keys, set())
RECURSIVE reduce_keys(_, _, _)
reduce_keys(acc, keys, i) ==
    IF i > Len(keys) THEN acc
    ELSE reduce_keys(accumulator(acc, keys[i]), keys, i + 1)

\* the list available returns, as the set of its elements
available(idx_, sz, entity) ==
    LET hits == search(idx_, sz, "_id", entity).hits
        keys == [i \in DOMAIN hits |-> DOMAIN hits[i]._source]
    IN reduce_keys({}, keys, 1)

InitAvailable ==
    /\ pc = "serving"
    /\ ret = Pending
    /\ index \in Indexes
    /\ size \in 0..MaxSize
    /\ seen = [e \in AdIds |-> NotSeen]
    /\ IdleFlatten /\ IdleExtend /\ IdleFilter /\ IdleReduce /\ IdleCombine
    /\ IdleSuggest /\ IdleReverse

CallAvailable(entity) ==
    /\ ret' = Return(available(index, size, entity))
    /\ seen' = [seen EXCEPT ![entity] =
                   [called |-> TRUE, at |-> Len(index), fields |-> ret'.val,
                    again |-> seen[entity].called /\ seen[entity].at = Len(index)]]
    /\ UNCHANGED <<pc, vFlatten, vExtend, vFilter, vReduce, vCombine, vSuggest,
                   vIndex, vReverse>>

\* the backing data changes: some other client indexes a document
IndexDocument(doc) ==
    /\ Len(index) < MaxDocs
    /\ index' = Append(index, doc)
    /\ UNCHANGED <<pc, ret, vFlatten, vExtend, vFilter, vReduce, vCombine,
                   vSuggest, size, vReverse, vAvailable>>

NextAvailable ==
    \/ \E entity \in AdIds : CallAvailable(entity)
    \/ \E doc \in Documents : IndexDocument(doc)

SpecAvailable == InitAvailable /\ [][NextAvailable]_vars

\* the field names of the hits of the _id query for an entity
HitFields(idx_, sz, entity) ==
    LET hits == search(idx_, sz, "_id", entity).hits
    IN UNION {DOMAIN hits[i]._source : i \in DOMAIN hits}

\* C7: a call of available leaves the index as it is and returns the union of
\* the field names of the hits of the entity; repeated on an unchanged index
\* it returns the same set again.
C7_AvailableIdempotent ==
    [][\A e \in AdIds :
          seen'[e] # seen[e] =>
              /\ index' = index
              /\ ret'.val = seen'[e].fields
              /\ seen'[e].fields = HitFields(index, size, e)
              /\ (seen[e].called /\ seen[e].at = Len(index)) =>
                    seen'[e].fields = seen[e].fields]_vars

\* the entity has two hits with different fields and was asked for twice on
\* the same index
C7_Witness ==
    \E e \in AdIds :
        /\ seen[e].called
        /\ seen[e].again
        /\ ret = Return(seen[e].fields)
        /\ Cardinality(seen[e].fields) = 2
        /\ \A i \in DOMAIN index : index[i]._id = e /\ Cardinality(DOMAIN index[i]._source) = 1
        /\ Len(index) = 2

=============================================================================
